---- MODULE Spec2Model ----
(***************************************************************************)
(* Model of the SOS session controller of app/(citizen)/sos.tsx            *)
(* (SOSScreen): the React state and refs of the screen, the async          *)
(* handlers activateSOS / deactivateSOS / uploadEvidence split at their    *)
(* awaits, and the external collaborators they call (location provider,    *)
(* sos_alerts table, push relay, camera recording promise, sos-evidence    *)
(* bucket), each of which may succeed or fail.                             *)
(*                                                                         *)
(* One action is one run of JavaScript between two awaits (a handler up to *)
(* its first await, or a continuation up to the next one): React state     *)
(* set inside it is visible to the next handler because a render commits   *)
(* between two events.                                                     *)
(***************************************************************************)
EXTENDS Integers, Sequences, FiniteSets, TLC

\* ---- bounds ----
MaxAlerts == 2      \* rows the sos_alerts table may hold
MaxSlots == 2       \* activateSOS invocations that may be suspended at once
MaxElapsed == 1     \* cap of the elapsedSeconds counter
MaxUploads == 3     \* uploads the bucket is offered in one behaviour
MaxReads == 2       \* fetchAlerts reads that may be pending at once
MaxEvents == 2      \* change events that may be undelivered at once
MaxChunks == 2       \* full chunks of push tokens the profiles table may hold
MaxSubmits == 2     \* presses on SUBMIT REPORT that pass the validation
MaxAuthEvents == 2  \* auth state changes that may be undelivered at once
MaxNow == 1         \* cap of the Date.now() readings

\* ---- input domains ----
Coords == {<<1, 2>>, <<2, 1>>}  \* <<latitude, longitude>> readings (0 is null)
UserIds == {0, 7}               \* session?.user?.id (0 is undefined)
Exts == {"mp4"}                 \* extension of the recorded file's uri
NoPath == <<>>                  \* video_path null
Slots == 1..MaxSlots

VARIABLES
    sosStatus,        \* useState<SOSStatus>
    alertId,          \* useState<string|null>, 0 is null
    elapsedSeconds,   \* useState(0)
    isRecordingRef,   \* useRef(false)
    timerRef,         \* useRef: TRUE when an interval handle is stored
    intervals,        \* number of live setInterval timers
    platformWeb,      \* Platform.OS === 'web' (no CameraView, cameraRef null)
    sessionUser,      \* session?.user?.id
    permissions,      \* usePermissions() state
    permPending,      \* requestAll() has not yet called setStatuses
    sos_alerts,       \* the table: sequence of rows, id = index
    storage,          \* names of the objects in bucket sos-evidence
    now,              \* last Date.now() reading
    acts,             \* suspended activateSOS invocations, by slot
    recs,             \* pending recordAsync() promises
    uploads,          \* suspended uploadEvidence invocations
    deacts,           \* suspended deactivateSOS invocations (awaiting update)
    timeouts,         \* pending setTimeout callbacks
    dialog,           \* title of the last Alert.alert shown, "none" if dismissed
    rowsThisSession,  \* history: rows inserted since sosStatus last left idle
    last,             \* history: the handler or continuation that ran last
    unit,             \* the unit of the repository this behaviour runs
    isSOSActive,      \* (tabs)/index.tsx: useState(false)
    activeAlertId,    \* (tabs)/index.tsx: useState<string|null>, 0 is null
    demoCameraRef,    \* (tabs)/index.tsx: the CameraView is rendered
    demoActs,         \* (tabs)/index.tsx: suspended startSOS invocations
    demoRecs,         \* (tabs)/index.tsx: pending recordAsync() promises
    demoUploads,      \* (tabs)/index.tsx: suspended uploadEvidence invocations
    isRecording,      \* part_002: useState(false)
    pivotCameraRef,   \* part_002: the CameraView is rendered
    pivotAct,         \* part_002: the suspended handleSOS invocation
    pivotTimers,      \* part_002: pending 5 s timeouts, each with the
                      \* isRecording its closure captured
    pivotRecs,        \* part_002: pending recordAsync() promises
    pivotUploads,     \* part_002: suspended processAndUpload invocations
    blobs,            \* the objects of the sos-evidence bucket, with content
    tried,            \* the uploads offered to the bucket, in order
    mounted,          \* alerts.tsx: the mount effect ran (channel subscribed)
    alerts,           \* alerts.tsx: useState<SOSAlert[]>([])
    events,           \* postgres_changes events not yet delivered
    reads,            \* alerts.tsx: pending fetchAlerts reads
    readFailed,       \* history: some read returned an error
    relayPc,          \* send-sos-notification: position of the handler
    request,          \* send-sos-notification: the body of the request
    profiles,         \* the push_token column of the profiles table
    tokens,           \* send-sos-notification: const tokens
    loopIndex,        \* send-sos-notification: the loop's let i
    posted,           \* the bodies posted to the Expo push API, in order
    response,         \* send-sos-notification: the Response returned
    description,      \* (citizen)/_layout.tsx: useState('')
    photoUri,         \* (citizen)/_layout.tsx: useState<string|null>, "" is null
    reportLoading,    \* (citizen)/_layout.tsx: const [loading, setLoading]
    submitted,        \* (citizen)/_layout.tsx: useState(false)
    reports,          \* the reports table
    reportStorage,    \* names of the objects of the report-evidence bucket
    reportAct,        \* (citizen)/_layout.tsx: the suspended submitReport
    reportTimeouts,   \* pending setTimeout(() => setSubmitted(false), 3000)
    reportDialog,     \* the Alert.alert shown by the report screen
    submissions,      \* history: presses that passed the validation
    session,          \* AuthProvider: useState<Session|null>, the user (0 is null)
    profile,          \* AuthProvider: useState<Profile|null>, the profile's id
    loading,          \* AuthProvider: useState(true)
    segment,          \* useSegments()[0]
    storedSession,    \* the session persisted on the device at start
    getSessionPending,\* the getSession() promise of the mount effect
    authEvents,       \* onAuthStateChange events not yet delivered
    profileFetches,   \* users whose fetchProfile is pending
    effectDue,        \* useProtectedRoute's effect has to run (a dep changed)
    loginPending      \* LoginScreen: the user whose signIn is awaited

progVars == <<sosStatus, alertId, elapsedSeconds, isRecordingRef, timerRef,
              intervals, platformWeb, sessionUser, permissions, permPending,
              sos_alerts, storage, now, acts, recs, uploads, deacts, timeouts,
              dialog>>
vars == <<sosStatus, alertId, elapsedSeconds, isRecordingRef, timerRef,
          intervals, platformWeb, sessionUser, permissions, permPending,
          sos_alerts, storage, now, acts, recs, uploads, deacts, timeouts,
          dialog, rowsThisSession, last, unit, isSOSActive, activeAlertId,
          demoCameraRef, demoActs, demoRecs, demoUploads, isRecording,
          pivotCameraRef, pivotAct, pivotTimers, pivotRecs, pivotUploads,
          blobs, tried, mounted, alerts, events, reads, readFailed,
          relayPc, request, profiles, tokens, loopIndex, posted, response,
          description, photoUri, reportLoading, submitted, reports,
          reportStorage, reportAct, reportTimeouts, reportDialog, submissions,
          session, profile, loading, segment, storedSession, getSessionPending,
          authEvents, profileFetches, effectDue, loginPending>>

\* the state of the units other than the SOS screen
\* the state of the SOS screen and the history of its sessions
sosVars == <<sosStatus, alertId, elapsedSeconds, isRecordingRef, timerRef,
             intervals, platformWeb, sessionUser, permissions, permPending,
             acts, recs, uploads, deacts, timeouts, dialog, rowsThisSession>>
demoVars == <<isSOSActive, activeAlertId, demoCameraRef, demoActs, demoRecs,
              demoUploads>>
pivotVars == <<isRecording, pivotCameraRef, pivotAct, pivotTimers, pivotRecs,
               pivotUploads>>
bucketVars == <<blobs, tried>>
policeVars == <<mounted, alerts, events, reads, readFailed>>
relayVars == <<relayPc, request, profiles, tokens, loopIndex, posted, response>>
reportVars == <<description, photoUri, reportLoading, submitted, reports,
                reportStorage, reportAct, reportTimeouts, reportDialog,
                submissions>>
authVars == <<session, profile, loading, segment, storedSession,
              getSessionPending, authEvents, profileFetches, effectDue,
              loginPending>>
otherVars == <<unit, demoVars, pivotVars, bucketVars, policeVars, relayVars,
               reportVars, authVars>>
\* what the demo dashboard leaves alone, and what the other units do
outsideDemo == <<sosVars, pivotVars, bucketVars, policeVars, relayVars, reportVars,
                 authVars>>
outsidePivot == <<sosVars, demoVars, bucketVars, policeVars, relayVars, reportVars,
                  authVars>>
outsideBucket == <<sosVars, demoVars, pivotVars, policeVars, relayVars, reportVars,
                   authVars>>
outsidePolice == <<sosVars, demoVars, pivotVars, bucketVars, relayVars, reportVars,
                   authVars>>
outsideRelay == <<sosVars, demoVars, pivotVars, bucketVars, policeVars,
                  reportVars, authVars, sos_alerts, storage, now, unit>>
outsideReport == <<sosVars, demoVars, pivotVars, bucketVars, policeVars,
                   relayVars, authVars, sos_alerts, storage, unit>>
outsideAuth == <<sosVars, demoVars, pivotVars, bucketVars, policeVars,
                 relayVars, reportVars, sos_alerts, storage, now, unit>>

\* Each behaviour runs one unit of the repository against the backend:
\* the citizen SOS screen is "sos", the no-auth demo dashboard of
\* app/(tabs)/index.tsx is "demo", the fixed-duration dashboard
\* of part_002 is "pivot"; "bucket" is the upload step of the two
\* uploadEvidence functions run on arbitrary alerts and clock readings;
\* "police" is the alerts dashboard of app/(police)/alerts.tsx with the
\* table written by other devices; "relay" is one request to the
\* send-sos-notification edge function; "report" is the citizen's report
\* screen of app/(citizen)/_layout.tsx; "auth" is the AuthProvider with
\* its route guard and the login screen.
Units == {"sos", "demo", "pivot", "bucket", "police", "relay", "report", "auth"}

SOSStatus == {"idle", "activating", "active", "uploading", "done"}

NoRequest == [alert_id |-> 0, lat |-> 0, lng |-> 0]
NoResponse == [status |-> 0, sent |-> 0]
\* the accounts: user 1 has a citizen profile, user 2 a police profile
Users == {1, 2}
RoleOf(u) == IF u = 1 THEN "citizen" ELSE "police"
\* segments[0]: the three route groups and the tabs of the demo
Groups == {"(auth)", "(citizen)", "(police)", "(tabs)"}
NoReport == [pc |-> "none", description |-> "", photoUri |-> "", lat |-> 0,
             lng |-> 0, name |-> NoPath]
PivotIdle == [pc |-> "none", isRecording |-> FALSE]
NoAct == [pc |-> "none", lat |-> 0, lng |-> 0, id |-> 0, canRecord |-> FALSE]

\* cameraRef.current: the CameraView is rendered unless Platform.OS is web
cameraRef == ~platformWeb

Init ==
    /\ sosStatus = "idle"
    /\ alertId = 0
    /\ elapsedSeconds = 0
    /\ isRecordingRef = FALSE
    /\ timerRef = FALSE
    /\ intervals = 0
    /\ unit \in Units
    \* the platform and the signed-in user are read by the SOS screen only
    /\ platformWeb \in (IF unit = "sos" THEN BOOLEAN ELSE {FALSE})
    /\ sessionUser \in (IF unit = "sos" THEN UserIds ELSE {7})
    /\ permissions = [camera |-> FALSE, microphone |-> FALSE]
    /\ permPending = TRUE
    /\ sos_alerts = <<>>
    /\ storage = {}
    /\ now = 0
    /\ acts = [s \in Slots |-> NoAct]
    /\ recs = {}
    /\ uploads = {}
    /\ deacts = {}
    /\ timeouts = [plain |-> 0, reset |-> 0]
    /\ dialog = "none"
    /\ rowsThisSession = 0
    /\ last = "init"
    /\ isSOSActive = FALSE
    /\ activeAlertId = 0
    /\ demoCameraRef = FALSE
    /\ demoActs = [s \in Slots |-> NoAct]
    /\ demoRecs = {}
    /\ demoUploads = {}
    /\ isRecording = FALSE
    /\ pivotCameraRef = FALSE
    /\ pivotAct = PivotIdle
    /\ pivotTimers = {}
    /\ pivotRecs = {}
    /\ pivotUploads = {}
    /\ blobs = {}
    /\ tried = <<>>
    /\ mounted = FALSE
    /\ alerts = <<>>
    /\ events = 0
    /\ reads = {}
    /\ readFailed = FALSE
    /\ relayPc = "idle"
    /\ request = NoRequest
    /\ profiles = <<>>
    /\ tokens = <<>>
    /\ loopIndex = 0
    /\ posted = <<>>
    /\ response = NoResponse
    /\ description = ""
    /\ photoUri = ""
    /\ reportLoading = FALSE
    /\ submitted = FALSE
    /\ reports = <<>>
    /\ reportStorage = {}
    /\ reportAct = NoReport
    /\ reportTimeouts = 0
    /\ reportDialog = "none"
    /\ submissions = 0
    /\ session = 0
    /\ profile = 0
    /\ loading = TRUE
    \* the app opens on any route, with or without a persisted session
    /\ segment \in (IF unit = "auth" THEN Groups ELSE {"(auth)"})
    /\ storedSession \in (IF unit = "auth" THEN {0} \cup Users ELSE {0})
    /\ getSessionPending = TRUE
    /\ authEvents = <<>>
    /\ profileFetches = {}
    /\ effectDue = TRUE
    /\ loginPending = 0

\* ---- usePermissions ----
\* requestAll ends with one setStatuses; the statuses never change afterwards
requestAll(cam, mic) ==
    /\ permPending
    /\ permPending' = FALSE
    /\ permissions' = [camera |-> cam, microphone |-> mic]
    /\ last' = "requestAll"
    /\ unit = "sos"
    /\ UNCHANGED otherVars
    /\ UNCHANGED <<sosStatus, alertId, elapsedSeconds, isRecordingRef, timerRef,
                   intervals, platformWeb, sessionUser, sos_alerts, storage,
                   now, acts, recs, uploads, deacts, timeouts, dialog,
                   rowsThisSession>>

\* ---- activateSOS ----
ActivateGuard_open == TRUE
\* if (sosStatus !== 'idle') return;
ActivateGuard == sosStatus = "idle"

\* step 4 condition, evaluated with the permissions of the render whose
\* closure was pressed
CanRecord_always(p) == TRUE
CanRecord(p) == cameraRef /\ p.camera /\ p.microphone /\ ~platformWeb

FreeSlots == {s \in Slots : acts[s].pc = "none"}
InFlight == {s \in Slots : acts[s].pc # "none"}

\* The press. Up to the first await: setSOSStatus('activating') and the
\* location request.
activateSOS ==
    /\ last' = "activateSOS"
    /\ unit = "sos"
    /\ UNCHANGED otherVars
    /\ IF ~ActivateGuard
       THEN UNCHANGED <<progVars, rowsThisSession>>
       ELSE /\ FreeSlots # {}
            /\ Len(sos_alerts) + Cardinality(InFlight) < MaxAlerts
            /\ LET s == CHOOSE x \in FreeSlots : \A y \in FreeSlots : x <= y
               IN acts' = [acts EXCEPT ![s] =
                              [NoAct EXCEPT !.pc = "loc",
                                            !.canRecord = CanRecord(permissions)]]
            /\ sosStatus' = "activating"
            /\ rowsThisSession' = IF sosStatus = "idle" THEN 0 ELSE rowsThisSession
            /\ UNCHANGED <<alertId, elapsedSeconds, isRecordingRef, timerRef,
                           intervals, platformWeb, sessionUser, permissions,
                           permPending, sos_alerts, storage, now, recs, uploads,
                           deacts, timeouts, dialog>>

\* catch (e) of activateSOS: Alert.alert('SOS Error', ...); setSOSStatus('idle')
ActivationCatchStatus_stay == "activating"
ActivationCatchStatus == "idle"

activationCatch(s) ==
    /\ dialog' = "SOS Error"
    /\ sosStatus' = ActivationCatchStatus
    /\ acts' = [acts EXCEPT ![s] = NoAct]

\* the row of the insert call
InsertRow_resolved(lat, lng) ==
    [user_id |-> sessionUser, lat |-> lat, lng |-> lng, status |-> "resolved",
     video_path |-> NoPath, created_at |-> now]
\* created_at is the column default now() of the server, read off the clock
InsertRow(lat, lng) ==
    [user_id |-> sessionUser, lat |-> lat, lng |-> lng, status |-> "active",
     video_path |-> NoPath, created_at |-> now]

\* Continuation after the location await. getCurrentPositionAsync throws when
\* the permission is denied or no position is available (ok = FALSE); on
\* success the insert is issued with the coordinates read.
locationReturns(s, ok, coords) ==
    /\ acts[s].pc = "loc"
    /\ last' = IF ok THEN "locationOk" ELSE "locationFailed"
    /\ unit = "sos"
    /\ UNCHANGED otherVars
    /\ IF ~ok
       THEN activationCatch(s)
       ELSE /\ acts' = [acts EXCEPT ![s].pc = "insert", ![s].lat = coords[1],
                                    ![s].lng = coords[2]]
            /\ UNCHANGED <<sosStatus, dialog>>
    /\ UNCHANGED <<alertId, elapsedSeconds, isRecordingRef, timerRef, intervals,
                   platformWeb, sessionUser, permissions, permPending,
                   sos_alerts, storage, now, recs, uploads, deacts, timeouts,
                   rowsThisSession>>

\* Continuation after the insert await. if (alertError) throw alertError;
\* otherwise setAlertId(alertData.id) and the push relay is invoked. The
\* store assigns the id (the row's index in the table).
insertReturns(s, ok) ==
    /\ acts[s].pc = "insert"
    /\ last' = IF ok THEN "insertOk" ELSE "insertFailed"
    /\ unit = "sos"
    /\ UNCHANGED otherVars
    /\ IF ~ok
       THEN /\ activationCatch(s)
            /\ UNCHANGED <<alertId, sos_alerts, rowsThisSession>>
       ELSE /\ sos_alerts' = Append(sos_alerts, InsertRow(acts[s].lat, acts[s].lng))
            /\ rowsThisSession' = rowsThisSession + 1
            /\ alertId' = Len(sos_alerts')
            /\ acts' = [acts EXCEPT ![s].pc = "push", ![s].id = Len(sos_alerts')]
            /\ UNCHANGED <<sosStatus, dialog>>
    /\ UNCHANGED <<elapsedSeconds, isRecordingRef, timerRef, intervals,
                   platformWeb, sessionUser, permissions, permPending, storage,
                   now, recs, uploads, deacts, timeouts>>

\* startTimer: setElapsedSeconds(0); timerRef.current = setInterval(...)
startTimer ==
    /\ elapsedSeconds' = 0
    /\ timerRef' = TRUE
    /\ intervals' = intervals + 1

\* stopTimer: clears the interval whose handle is stored, if any
stopTimer ==
    IF timerRef
    THEN /\ intervals' = intervals - 1
         /\ timerRef' = FALSE
    ELSE UNCHANGED <<intervals, timerRef>>

\* the inner try/catch around functions.invoke absorbs a thrown error; a
\* returned { error } is never inspected
PushAbsorbed_rethrow(outcome) == outcome # "throw"
PushAbsorbed(outcome) == TRUE

PushOutcomes == {"ok", "error", "throw"}
PushLabel(o) == IF o = "ok" THEN "pushOk" ELSE IF o = "error" THEN "pushError" ELSE "pushThrow"

\* Continuation after the push await: start the recording when possible,
\* setSOSStatus('active'), startTimer().
pushReturns(s, outcome) ==
    /\ acts[s].pc = "push"
    /\ last' = PushLabel(outcome)
    /\ unit = "sos"
    /\ UNCHANGED otherVars
    /\ IF ~PushAbsorbed(outcome)
       THEN /\ activationCatch(s)
            /\ UNCHANGED <<isRecordingRef, recs, elapsedSeconds, timerRef,
                           intervals>>
       ELSE /\ IF acts[s].canRecord
               THEN /\ isRecordingRef' = TRUE
                    /\ recs' = recs \cup {[id |-> acts[s].id, stopped |-> FALSE]}
               ELSE UNCHANGED <<isRecordingRef, recs>>
            /\ sosStatus' = "active"
            /\ startTimer
            /\ acts' = [acts EXCEPT ![s] = NoAct]
            /\ UNCHANGED dialog
    /\ UNCHANGED <<alertId, platformWeb, sessionUser, permissions, permPending,
                   sos_alerts, storage, now, uploads, deacts, timeouts,
                   rowsThisSession>>

\* ---- deactivateSOS ----
DeactivateGuard_open == TRUE
\* if (sosStatus !== 'active') return;
DeactivateGuard == sosStatus = "active"

\* setSOSStatus('uploading')
StoppedStatus_idle == "idle"
StoppedStatus == "uploading"

\* if (cameraRef.current && isRecordingRef.current)
HasCapture == cameraRef /\ isRecordingRef

\* the row addressed by the else branch: .eq('id', alertId)
UpdateTarget_first == IF alertId = 0 THEN 0 ELSE 1
UpdateTarget == alertId

\* .update({ status: 'resolved' }).eq('id', id)
ResolveUpdate_pending(row) == [row EXCEPT !.status = "pending"]
ResolveUpdate(row) == [row EXCEPT !.status = "resolved"]

\* cameraRef.current.stopRecording(): the camera ends the recording in
\* progress
stopRecording == recs' = {[r EXCEPT !.stopped = TRUE] : r \in recs}

\* the else branch's tail: setSOSStatus('done'); setTimeout(() => setSOSStatus('idle'), 2000)
doneThenIdle ==
    /\ sosStatus' = "done"
    /\ timeouts' = [timeouts EXCEPT !.plain = @ + 1]

\* The press on STOP, up to the await of the update (or to the end).
deactivateSOS ==
    /\ last' = "deactivateSOS"
    /\ unit = "sos"
    /\ UNCHANGED otherVars
    /\ IF ~DeactivateGuard
       THEN UNCHANGED <<progVars, rowsThisSession>>
       ELSE /\ stopTimer
            /\ IF HasCapture
               THEN /\ sosStatus' = StoppedStatus
                    /\ isRecordingRef' = FALSE
                    /\ stopRecording
                    /\ UNCHANGED <<deacts, timeouts>>
               ELSE /\ IF alertId # 0
                       THEN /\ sosStatus' = StoppedStatus
                            /\ deacts' = deacts \cup {[id |-> UpdateTarget]}
                            /\ UNCHANGED timeouts
                       ELSE /\ doneThenIdle
                            /\ UNCHANGED deacts
                    /\ UNCHANGED <<isRecordingRef, recs>>
            /\ UNCHANGED <<alertId, elapsedSeconds, platformWeb, sessionUser,
                           permissions, permPending, sos_alerts, storage, now,
                           acts, uploads, dialog, rowsThisSession>>

\* Continuation after the awaited update of the else branch; the result of
\* the update is not inspected. ok = FALSE: the store rejected the update.
resolveReturns(d, ok) ==
    /\ d \in deacts
    /\ last' = IF ok THEN "resolveOk" ELSE "resolveRejected"
    /\ unit = "sos"
    /\ UNCHANGED otherVars
    /\ deacts' = deacts \ {d}
    /\ sos_alerts' = IF ok /\ d.id \in DOMAIN sos_alerts
                     THEN [sos_alerts EXCEPT ![d.id] = ResolveUpdate(@)]
                     ELSE sos_alerts
    /\ doneThenIdle
    /\ UNCHANGED <<alertId, elapsedSeconds, isRecordingRef, timerRef, intervals,
                   platformWeb, sessionUser, permissions, permPending, storage,
                   now, acts, recs, uploads, dialog, rowsThisSession>>

\* ---- the recording promise and uploadEvidence ----
\* const fileName = `sos_${id}_${Date.now()}.${fileExt}`
FileName(id, t, ext) == <<"sos", id, t, ext>>

RecOutcomes == {"file", "nofile", "error"}
RecLabel(o) == IF o = "file" THEN "recFile" ELSE IF o = "nofile" THEN "recNoFile" ELSE "recError"

\* if (video?.uri) await uploadEvidence(video.uri, alertData.id)
YieldsUpload(outcome) == outcome = "file"

\* The recordAsync() promise settles: after stopRecording(), or earlier when
\* the camera ends the recording itself (preview stopped, recording error).
\* With a file, uploadEvidence runs up to its first await (fetch(uri)).
recordingSettles(r, outcome, ext, t) ==
    /\ r \in recs
    /\ t >= now
    /\ last' = RecLabel(outcome)
    /\ unit = "sos"
    /\ UNCHANGED otherVars
    /\ recs' = recs \ {r}
    /\ IF YieldsUpload(outcome)
       THEN /\ now' = t
            /\ uploads' = uploads \cup
                 {[id |-> r.id, name |-> FileName(r.id, t, ext), pc |-> "fetch"]}
       ELSE /\ t = now
            /\ UNCHANGED <<now, uploads>>
    /\ UNCHANGED <<sosStatus, alertId, elapsedSeconds, isRecordingRef, timerRef,
                   intervals, platformWeb, sessionUser, permissions, permPending,
                   sos_alerts, storage, acts, deacts, timeouts, dialog,
                   rowsThisSession>>

\* catch (e) of uploadEvidence: Alert.alert('Upload Failed', ...); setSOSStatus('idle')
uploadCatch(u) ==
    /\ dialog' = "Upload Failed"
    /\ sosStatus' = "idle"
    /\ uploads' = uploads \ {u}

\* Continuation after fetch(uri) / response.blob(); either may throw.
fetchReturns(u, ok) ==
    /\ u \in uploads
    /\ u.pc = "fetch"
    /\ last' = IF ok THEN "fetchOk" ELSE "fetchFailed"
    /\ unit = "sos"
    /\ UNCHANGED otherVars
    /\ IF ~ok
       THEN uploadCatch(u)
       ELSE /\ uploads' = (uploads \ {u}) \cup {[u EXCEPT !.pc = "upload"]}
            /\ UNCHANGED <<sosStatus, dialog>>
    /\ UNCHANGED <<alertId, elapsedSeconds, isRecordingRef, timerRef, intervals,
                   platformWeb, sessionUser, permissions, permPending,
                   sos_alerts, storage, now, acts, recs, deacts, timeouts,
                   rowsThisSession>>

\* the bucket's answer to upload(fileName, blob, { upsert: false }): an
\* existing name is refused
Stored(u, ok) == ok /\ u.name \notin storage

\* if (uploadError) throw uploadError;
UploadThrows_never(stored) == FALSE
UploadThrows(stored) == ~stored

\* Continuation after the upload await: on success the row update is issued.
uploadReturns(u, ok) ==
    /\ u \in uploads
    /\ u.pc = "upload"
    /\ last' = IF Stored(u, ok) THEN "uploadOk" ELSE "uploadFailed"
    /\ unit = "sos"
    /\ UNCHANGED otherVars
    /\ storage' = IF Stored(u, ok) THEN storage \cup {u.name} ELSE storage
    /\ IF UploadThrows(Stored(u, ok))
       THEN uploadCatch(u)
       ELSE /\ uploads' = (uploads \ {u}) \cup {[u EXCEPT !.pc = "update"]}
            /\ UNCHANGED <<sosStatus, dialog>>
    /\ UNCHANGED <<alertId, elapsedSeconds, isRecordingRef, timerRef, intervals,
                   platformWeb, sessionUser, permissions, permPending,
                   sos_alerts, now, acts, recs, deacts, timeouts,
                   rowsThisSession>>

\* .update({ video_path: fileName, status: 'resolved' }).eq('id', id)
EvidenceUpdate_relocate(row, name) ==
    [row EXCEPT !.video_path = name, !.status = "resolved", !.lat = 0]
EvidenceUpdate(row, name) == [row EXCEPT !.video_path = name, !.status = "resolved"]

\* Continuation after the awaited update, whose result is not inspected:
\* setSOSStatus('done') and the 2 s timeout that clears the session.
updateReturns(u, ok) ==
    /\ u \in uploads
    /\ u.pc = "update"
    /\ last' = IF ok THEN "updateOk" ELSE "updateRejected"
    /\ unit = "sos"
    /\ UNCHANGED otherVars
    /\ uploads' = uploads \ {u}
    /\ sos_alerts' = IF ok /\ u.id \in DOMAIN sos_alerts
                     THEN [sos_alerts EXCEPT ![u.id] = EvidenceUpdate(@, u.name)]
                     ELSE sos_alerts
    /\ sosStatus' = "done"
    /\ timeouts' = [timeouts EXCEPT !.reset = @ + 1]
    /\ UNCHANGED <<alertId, elapsedSeconds, isRecordingRef, timerRef, intervals,
                   platformWeb, sessionUser, permissions, permPending, storage,
                   now, acts, recs, deacts, dialog, rowsThisSession>>

\* ---- timers ----
\* setTimeout(() => setSOSStatus('idle'), 2000) of deactivateSOS
timeoutPlain ==
    /\ timeouts.plain > 0
    /\ last' = "timeoutPlain"
    /\ unit = "sos"
    /\ UNCHANGED otherVars
    /\ timeouts' = [timeouts EXCEPT !.plain = @ - 1]
    /\ sosStatus' = "idle"
    /\ UNCHANGED <<alertId, elapsedSeconds, isRecordingRef, timerRef, intervals,
                   platformWeb, sessionUser, permissions, permPending,
                   sos_alerts, storage, now, acts, recs, uploads, deacts,
                   dialog, rowsThisSession>>

\* setTimeout(() => { setSOSStatus('idle'); setAlertId(null); setElapsedSeconds(0) }, 2000)
timeoutReset ==
    /\ timeouts.reset > 0
    /\ last' = "timeoutReset"
    /\ unit = "sos"
    /\ UNCHANGED otherVars
    /\ timeouts' = [timeouts EXCEPT !.reset = @ - 1]
    /\ sosStatus' = "idle"
    /\ alertId' = 0
    /\ elapsedSeconds' = 0
    /\ UNCHANGED <<isRecordingRef, timerRef, intervals, platformWeb,
                   sessionUser, permissions, permPending, sos_alerts, storage,
                   now, acts, recs, uploads, deacts, dialog, rowsThisSession>>

\* the setInterval callback: setElapsedSeconds(s => s + 1)
tick ==
    /\ intervals > 0
    /\ elapsedSeconds < MaxElapsed
    /\ last' = "tick"
    /\ unit = "sos"
    /\ UNCHANGED otherVars
    /\ elapsedSeconds' = elapsedSeconds + 1
    /\ UNCHANGED <<sosStatus, alertId, isRecordingRef, timerRef, intervals,
                   platformWeb, sessionUser, permissions, permPending,
                   sos_alerts, storage, now, acts, recs, uploads, deacts,
                   timeouts, dialog, rowsThisSession>>

\* the user closes the Alert.alert dialog
dismissDialog ==
    /\ dialog # "none"
    /\ last' = "dismissDialog"
    /\ unit = "sos"
    /\ UNCHANGED otherVars
    /\ dialog' = "none"
    /\ UNCHANGED <<sosStatus, alertId, elapsedSeconds, isRecordingRef, timerRef,
                   intervals, platformWeb, sessionUser, permissions, permPending,
                   sos_alerts, storage, now, acts, recs, uploads, deacts,
                   timeouts, rowsThisSession>>

\* ---- app/(tabs)/index.tsx: the no-auth demo dashboard ----
\* Both permission requests of the mount effect were granted: the CameraView
\* is rendered and cameraRef.current is set.
demoCameraMounts ==
    /\ unit = "demo"
    /\ ~demoCameraRef
    /\ demoCameraRef' = TRUE
    /\ last' = "demoCameraMounts"
    /\ UNCHANGED <<outsideDemo, sos_alerts, storage, now, unit, isSOSActive,
                   activeAlertId, demoActs, demoRecs, demoUploads>>

\* if (isSOSActive) return;
StartGuard == ~isSOSActive

DemoFree == {s \in Slots : demoActs[s].pc = "none"}
DemoInFlight == {s \in Slots : demoActs[s].pc # "none"}

\* The press on SOS, up to the await of the location read.
startSOS ==
    /\ unit = "demo"
    /\ last' = "startSOS"
    /\ IF ~StartGuard
       THEN UNCHANGED <<isSOSActive, demoActs>>
       ELSE /\ DemoFree # {}
            /\ Len(sos_alerts) + Cardinality(DemoInFlight) < MaxAlerts
            /\ isSOSActive' = TRUE
            /\ LET s == CHOOSE x \in DemoFree : \A y \in DemoFree : x <= y
               IN demoActs' = [demoActs EXCEPT ![s] = [NoAct EXCEPT !.pc = "loc"]]
    /\ UNCHANGED <<outsideDemo, sos_alerts, storage, now, unit, activeAlertId,
                   demoCameraRef, demoRecs, demoUploads>>

\* catch of startSOS: setIsSOSActive(false)
startCatch(s) ==
    /\ isSOSActive' = FALSE
    /\ demoActs' = [demoActs EXCEPT ![s] = NoAct]

\* Continuation after the location await: the insert is issued.
demoLocationReturns(s, ok, coords) ==
    /\ unit = "demo"
    /\ demoActs[s].pc = "loc"
    /\ last' = IF ok THEN "demoLocationOk" ELSE "demoLocationFailed"
    /\ IF ~ok
       THEN startCatch(s)
       ELSE /\ demoActs' = [demoActs EXCEPT ![s].pc = "insert",
                                            ![s].lat = coords[1],
                                            ![s].lng = coords[2]]
            /\ UNCHANGED isSOSActive
    /\ UNCHANGED <<outsideDemo, sos_alerts, storage, now, unit, activeAlertId,
                   demoCameraRef, demoRecs, demoUploads>>

\* insert([{ lat, lng, status: 'active' }]): no user_id is sent
DemoInsertRow(lat, lng) ==
    [user_id |-> 0, lat |-> lat, lng |-> lng, status |-> "active",
     video_path |-> NoPath, created_at |-> now]

\* Continuation after the insert await: setActiveAlertId(data.id) and, when
\* the camera is mounted, recordAsync().
demoInsertReturns(s, ok) ==
    /\ unit = "demo"
    /\ demoActs[s].pc = "insert"
    /\ last' = IF ok THEN "demoInsertOk" ELSE "demoInsertFailed"
    /\ IF ~ok
       THEN /\ startCatch(s)
            /\ UNCHANGED <<sos_alerts, activeAlertId, demoRecs>>
       ELSE /\ sos_alerts' = Append(sos_alerts,
                                    DemoInsertRow(demoActs[s].lat, demoActs[s].lng))
            /\ activeAlertId' = Len(sos_alerts')
            /\ demoRecs' = IF demoCameraRef
                           THEN demoRecs \cup {[id |-> Len(sos_alerts'),
                                                stopped |-> FALSE]}
                           ELSE demoRecs
            /\ demoActs' = [demoActs EXCEPT ![s] = NoAct]
            /\ UNCHANGED isSOSActive
    /\ UNCHANGED <<outsideDemo, storage, now, unit, demoCameraRef, demoUploads>>

\* if (!isSOSActive) return;
StopGuard == isSOSActive

\* The press on STOP: setIsSOSActive(false); cameraRef.current?.stopRecording()
stopSOS ==
    /\ unit = "demo"
    /\ last' = "stopSOS"
    /\ IF ~StopGuard
       THEN UNCHANGED <<isSOSActive, demoRecs>>
       ELSE /\ isSOSActive' = FALSE
            /\ demoRecs' = IF demoCameraRef
                           THEN {[r EXCEPT !.stopped = TRUE] : r \in demoRecs}
                           ELSE demoRecs
    /\ UNCHANGED <<outsideDemo, sos_alerts, storage, now, unit, activeAlertId,
                   demoCameraRef, demoActs, demoUploads>>

\* The recordAsync() promise settles; with a file uploadEvidence runs up to
\* the await of FileSystem.readAsStringAsync.
demoRecordingSettles(r, outcome) ==
    /\ unit = "demo"
    /\ r \in demoRecs
    /\ last' = IF outcome = "file" THEN "demoRecFile"
               ELSE IF outcome = "nofile" THEN "demoRecNoFile" ELSE "demoRecError"
    /\ demoRecs' = demoRecs \ {r}
    /\ demoUploads' = IF YieldsUpload(outcome)
                      THEN demoUploads \cup {[id |-> r.id, name |-> NoPath,
                                              pc |-> "read"]}
                      ELSE demoUploads
    /\ UNCHANGED <<outsideDemo, sos_alerts, storage, now, unit, isSOSActive,
                   activeAlertId, demoCameraRef, demoActs>>

\* const fileName = `alert_${alertId}_${Date.now()}.mp4`
DemoFileName(id, t) == <<"alert", id, t, "mp4">>

\* finally { setActiveAlertId(null) } closes every path of uploadEvidence
demoUploadEnds(u) ==
    /\ demoUploads' = demoUploads \ {u}
    /\ activeAlertId' = 0

\* Continuation after the file read (it throws when the file cannot be
\* read): the name is built and the upload issued.
demoReadReturns(u, ok, t) ==
    /\ unit = "demo"
    /\ u \in demoUploads
    /\ u.pc = "read"
    /\ last' = IF ok THEN "demoReadOk" ELSE "demoReadFailed"
    /\ IF ~ok
       THEN /\ t = now
            /\ demoUploadEnds(u)
            /\ UNCHANGED now
       ELSE /\ t >= now
            /\ now' = t
            /\ demoUploads' = (demoUploads \ {u}) \cup
                  {[u EXCEPT !.pc = "upload", !.name = DemoFileName(u.id, t)]}
            /\ UNCHANGED activeAlertId
    /\ UNCHANGED <<outsideDemo, sos_alerts, storage, unit, isSOSActive,
                   demoCameraRef, demoActs, demoRecs>>

\* if (storageError) throw storageError;
DemoUploadThrows_never(stored) == FALSE
DemoUploadThrows(stored) == ~stored

\* Continuation after the upload await: on success the row update is issued.
demoUploadReturns(u, ok) ==
    /\ unit = "demo"
    /\ u \in demoUploads
    /\ u.pc = "upload"
    /\ last' = IF Stored(u, ok) THEN "demoUploadOk" ELSE "demoUploadFailed"
    /\ storage' = IF Stored(u, ok) THEN storage \cup {u.name} ELSE storage
    /\ IF DemoUploadThrows(Stored(u, ok))
       THEN demoUploadEnds(u)
       ELSE /\ demoUploads' = (demoUploads \ {u}) \cup {[u EXCEPT !.pc = "update"]}
            /\ UNCHANGED activeAlertId
    /\ UNCHANGED <<outsideDemo, sos_alerts, now, unit, isSOSActive, demoCameraRef,
                   demoActs, demoRecs>>

\* Continuation after the awaited update (result not inspected), then the
\* finally block.
demoUpdateReturns(u, ok) ==
    /\ unit = "demo"
    /\ u \in demoUploads
    /\ u.pc = "update"
    /\ last' = IF ok THEN "demoUpdateOk" ELSE "demoUpdateRejected"
    /\ sos_alerts' = IF ok /\ u.id \in DOMAIN sos_alerts
                     THEN [sos_alerts EXCEPT ![u.id] = EvidenceUpdate(@, u.name)]
                     ELSE sos_alerts
    /\ demoUploadEnds(u)
    /\ UNCHANGED <<outsideDemo, storage, now, unit, isSOSActive, demoCameraRef,
                   demoActs, demoRecs>>

DemoLocationStep == \E s \in Slots, ok \in BOOLEAN, c \in Coords :
                        demoLocationReturns(s, ok, c)
DemoInsertStep == \E s \in Slots, ok \in BOOLEAN : demoInsertReturns(s, ok)
DemoRecordingStep == \E r \in demoRecs, o \in RecOutcomes : demoRecordingSettles(r, o)
DemoReadStep == \E u \in demoUploads, ok \in BOOLEAN, t \in 0..MaxNow :
                    demoReadReturns(u, ok, t)
DemoUploadStep == \E u \in demoUploads, ok \in BOOLEAN : demoUploadReturns(u, ok)
DemoUpdateStep == \E u \in demoUploads, ok \in BOOLEAN : demoUpdateReturns(u, ok)

\* ---- part_002: the fixed-duration dashboard ----
\* Camera and microphone permissions were granted: the CameraView is
\* rendered and cameraRef.current is set.
pivotCameraMounts ==
    /\ unit = "pivot"
    /\ ~pivotCameraRef
    /\ pivotCameraRef' = TRUE
    /\ last' = "pivotCameraMounts"
    /\ UNCHANGED <<outsidePivot, sos_alerts, storage, now, unit, isRecording,
                   pivotAct, pivotTimers, pivotRecs, pivotUploads>>

\* if (isRecording) return;
HandleGuard == ~isRecording

\* A handleSOS invocation carries the isRecording of the render whose
\* handler the press ran: the stopSOS it later schedules reads that one.
PivotPressed == [pc |-> "loc", isRecording |-> isRecording]

\* The press on the button, up to the await of the location read.
handleSOS ==
    /\ unit = "pivot"
    /\ last' = "handleSOS"
    /\ IF ~HandleGuard
       THEN UNCHANGED <<isRecording, pivotAct>>
       ELSE /\ pivotAct.pc = "none"
            /\ isRecording' = TRUE
            /\ pivotAct' = PivotPressed
    /\ UNCHANGED <<outsidePivot, sos_alerts, storage, now, unit, pivotCameraRef,
                   pivotTimers, pivotRecs, pivotUploads>>

\* Continuation after the location await: with a camera the recording is
\* started and the 5 s timeout armed; its callback calls the stopSOS of the
\* render that ran handleSOS, whose isRecording is the one the guard read.
pivotLocationReturns(ok, coords) ==
    /\ unit = "pivot"
    /\ pivotAct.pc = "loc"
    /\ last' = IF ok THEN "pivotLocationOk" ELSE "pivotLocationFailed"
    /\ pivotAct' = PivotIdle
    /\ IF ~ok
       THEN /\ isRecording' = FALSE
            /\ UNCHANGED <<pivotRecs, pivotTimers>>
       ELSE /\ UNCHANGED isRecording
            /\ IF pivotCameraRef
               THEN /\ pivotRecs' = pivotRecs \cup
                         {[lat |-> coords[1], lng |-> coords[2], stopped |-> FALSE]}
                    /\ pivotTimers' = pivotTimers \cup
                         {[isRecording |-> pivotAct.isRecording]}
               ELSE UNCHANGED <<pivotRecs, pivotTimers>>
    /\ UNCHANGED <<outsidePivot, sos_alerts, storage, now, unit, pivotCameraRef,
                   pivotUploads>>

\* The 5 s timeout fires: stopSOS() with its closure's isRecording.
pivotTimeout(t) ==
    /\ unit = "pivot"
    /\ t \in pivotTimers
    /\ last' = "pivotTimeout"
    /\ pivotTimers' = pivotTimers \ {t}
    /\ IF pivotCameraRef /\ t.isRecording
       THEN /\ pivotRecs' = {[r EXCEPT !.stopped = TRUE] : r \in pivotRecs}
            /\ isRecording' = FALSE
       ELSE UNCHANGED <<pivotRecs, isRecording>>
    /\ UNCHANGED <<outsidePivot, sos_alerts, storage, now, unit, pivotCameraRef,
                   pivotAct, pivotUploads>>

\* The recordAsync() promise settles; with a file processAndUpload runs up
\* to the await of fetch(uri).
pivotRecordingSettles(r, outcome) ==
    /\ unit = "pivot"
    /\ r \in pivotRecs
    /\ last' = IF outcome = "file" THEN "pivotRecFile"
               ELSE IF outcome = "nofile" THEN "pivotRecNoFile" ELSE "pivotRecError"
    /\ pivotRecs' = pivotRecs \ {r}
    /\ pivotUploads' = IF YieldsUpload(outcome)
                       THEN pivotUploads \cup {[lat |-> r.lat, lng |-> r.lng,
                                                name |-> NoPath, pc |-> "fetch"]}
                       ELSE pivotUploads
    /\ UNCHANGED <<outsidePivot, sos_alerts, storage, now, unit, isRecording,
                   pivotCameraRef, pivotAct, pivotTimers>>

\* const fileName = `demo_sos_${Date.now()}.mp4`
PivotFileName(t) == <<"demo_sos", t, "mp4">>

\* Continuation after fetch and blob: the name is built and the upload
\* issued; a failure goes to the catch, which only reports.
pivotFetchReturns(u, ok, t) ==
    /\ unit = "pivot"
    /\ u \in pivotUploads
    /\ u.pc = "fetch"
    /\ last' = IF ok THEN "pivotFetchOk" ELSE "pivotFetchFailed"
    /\ IF ~ok
       THEN /\ t = now
            /\ pivotUploads' = pivotUploads \ {u}
            /\ UNCHANGED now
       ELSE /\ t >= now
            /\ now' = t
            /\ pivotUploads' = (pivotUploads \ {u}) \cup
                  {[u EXCEPT !.pc = "upload", !.name = PivotFileName(t)]}
    /\ UNCHANGED <<outsidePivot, sos_alerts, storage, unit, isRecording,
                   pivotCameraRef, pivotAct, pivotTimers, pivotRecs>>

\* if (storageError) throw storageError;
PivotUploadThrows(stored) == ~stored

\* Continuation after the upload await: on success the insert is issued.
pivotUploadReturns(u, ok) ==
    /\ unit = "pivot"
    /\ u \in pivotUploads
    /\ u.pc = "upload"
    /\ last' = IF Stored(u, ok) THEN "pivotUploadOk" ELSE "pivotUploadFailed"
    /\ storage' = IF Stored(u, ok) THEN storage \cup {u.name} ELSE storage
    /\ pivotUploads' = IF PivotUploadThrows(Stored(u, ok))
                       THEN pivotUploads \ {u}
                       ELSE (pivotUploads \ {u}) \cup {[u EXCEPT !.pc = "insert"]}
    /\ UNCHANGED <<outsidePivot, sos_alerts, now, unit, isRecording,
                   pivotCameraRef, pivotAct, pivotTimers, pivotRecs>>

\* insert([{ lat, lng, video_path: fileName, status: 'active' }])
PivotInsertRow(u) ==
    [user_id |-> 0, lat |-> u.lat, lng |-> u.lng, status |-> "active",
     video_path |-> u.name, created_at |-> now]

\* Continuation after the insert await; a rejected insert goes to the catch.
pivotInsertReturns(u, ok) ==
    /\ unit = "pivot"
    /\ u \in pivotUploads
    /\ u.pc = "insert"
    /\ Len(sos_alerts) < MaxAlerts
    /\ last' = IF ok THEN "pivotInsertOk" ELSE "pivotInsertFailed"
    /\ sos_alerts' = IF ok THEN Append(sos_alerts, PivotInsertRow(u)) ELSE sos_alerts
    /\ pivotUploads' = pivotUploads \ {u}
    /\ UNCHANGED <<outsidePivot, storage, now, unit, isRecording, pivotCameraRef,
                   pivotAct, pivotTimers, pivotRecs>>

PivotLocationStep == \E ok \in BOOLEAN, c \in Coords : pivotLocationReturns(ok, c)
PivotTimeoutStep == \E t \in pivotTimers : pivotTimeout(t)
PivotRecordingStep == \E r \in pivotRecs, o \in RecOutcomes : pivotRecordingSettles(r, o)
PivotFetchStep == \E u \in pivotUploads, ok \in BOOLEAN, t \in 0..MaxNow :
                      pivotFetchReturns(u, ok, t)
PivotUploadStep == \E u \in pivotUploads, ok \in BOOLEAN : pivotUploadReturns(u, ok)
PivotInsertStep == \E u \in pivotUploads, ok \in BOOLEAN : pivotInsertReturns(u, ok)

\* ---- the upload step of uploadEvidence against the bucket ----
\* { contentType: ..., upsert: false }
Upsert_true == TRUE
Upsert == FALSE

\* the recordings offered as content
Blobs == {1, 2}
Screens == {"sos", "demo"}

\* the name each screen builds for alert id at clock reading t
EvidenceName(screen, id, t) ==
    IF screen = "sos" THEN FileName(id, t, "mp4") ELSE DemoFileName(id, t)

\* storage.from('sos-evidence').upload(name, blob, { upsert }): an existing
\* name is replaced with upsert and refused without
BucketUpload(objs, name, blob, upsert) ==
    IF \E o \in objs : o.name = name
    THEN IF upsert
         THEN {o \in objs : o.name # name} \cup {[name |-> name, blob |-> blob]}
         ELSE objs
    ELSE objs \cup {[name |-> name, blob |-> blob]}

\* the upload reports an error exactly when it stored nothing
BucketRefuses(objs, name, upsert) == ~upsert /\ \E o \in objs : o.name = name

\* uploadEvidence(uri, id) from the reading of Date.now() to the answer of
\* the bucket.
evidenceUpload(screen, id, t, blob) ==
    /\ unit = "bucket"
    /\ Len(tried) < MaxUploads
    /\ t >= now
    /\ now' = t
    /\ LET name == EvidenceName(screen, id, t)
       IN /\ tried' = Append(tried, [id |-> id, name |-> name, blob |-> blob])
          /\ blobs' = BucketUpload(blobs, name, blob, Upsert)
          /\ last' = IF BucketRefuses(blobs, name, Upsert)
                     THEN "bucketRefused" ELSE "bucketStored"
    /\ storage' = {o.name : o \in blobs'}
    /\ UNCHANGED <<outsideBucket, sos_alerts, unit>>

EvidenceUploadStep ==
    \E screen \in Screens, id \in 1..MaxAlerts, t \in 0..MaxNow, blob \in Blobs :
        evidenceUpload(screen, id, t, blob)

\* ---- app/(police)/alerts.tsx: the alerts dashboard ----
\* .limit(50)
Limit == 50

RECURSIVE Newest(_, _)
\* the k newest rows of table t with their ids, newest first
Newest(t, k) ==
    IF k = 0 \/ t = <<>> THEN <<>>
    ELSE <<[id |-> Len(t), row |-> t[Len(t)]]>> \o Newest(SubSeq(t, 1, Len(t) - 1), k - 1)

\* select('*').order('created_at', { ascending: false }).limit(50): rows are
\* inserted with created_at = now() of a clock that does not go back, so the
\* order is the reverse of the insertion order
FreshRead(t) == Newest(t, Limit)

\* fetchAlerts up to its await: the select is sent
IssueRead == reads' = reads \cup {[pc |-> "sent", data |-> <<>>]}

\* The mount effect: fetchAlerts() and the channel subscription.
policeMount ==
    /\ unit = "police"
    /\ ~mounted
    /\ mounted' = TRUE
    /\ IssueRead
    /\ last' = "policeMount"
    /\ UNCHANGED <<outsidePolice, sos_alerts, storage, now, unit, alerts, events,
                   readFailed>>

\* a change of the table reaches the channel once the channel exists
Emit == events' = IF mounted THEN events + 1 ELSE events

\* Another device inserts an alert.
remoteInsert ==
    /\ unit = "police"
    /\ Len(sos_alerts) < MaxAlerts
    /\ events < MaxEvents
    /\ sos_alerts' = Append(sos_alerts,
                            [user_id |-> 7, lat |-> 1, lng |-> 2, status |-> "active",
                             video_path |-> NoPath, created_at |-> now])
    /\ Emit
    /\ last' = "remoteInsert"
    /\ UNCHANGED <<outsidePolice, storage, now, unit, mounted, alerts, reads,
                   readFailed>>

\* Another device resolves its alert.
remoteUpdate(i) ==
    /\ unit = "police"
    /\ i \in DOMAIN sos_alerts
    /\ sos_alerts[i].status = "active"
    /\ events < MaxEvents
    /\ sos_alerts' = [sos_alerts EXCEPT ![i] = ResolveUpdate(@)]
    /\ Emit
    /\ last' = "remoteUpdate"
    /\ UNCHANGED <<outsidePolice, storage, now, unit, mounted, alerts, reads,
                   readFailed>>

\* The channel delivers an event a second time.
duplicateEvent ==
    /\ unit = "police"
    /\ events > 0
    /\ events < MaxEvents
    /\ events' = events + 1
    /\ last' = "duplicateEvent"
    /\ UNCHANGED <<outsidePolice, sos_alerts, storage, now, unit, mounted, alerts,
                   reads, readFailed>>

\* The channel callback: () => { fetchAlerts(); }. The payload is not read,
\* so the events need no content and no order.
eventDelivered ==
    /\ unit = "police"
    /\ events > 0
    /\ Cardinality(reads) < MaxReads
    \* pending reads are kept apart by their state: one unsent select at a time
    /\ [pc |-> "sent", data |-> <<>>] \notin reads
    /\ events' = events - 1
    /\ IssueRead
    /\ last' = "eventDelivered"
    /\ UNCHANGED <<outsidePolice, sos_alerts, storage, now, unit, mounted, alerts,
                   readFailed>>

\* The server runs the select of a pending read on the table as it is now.
readExecutes(r) ==
    /\ unit = "police"
    /\ r \in reads
    /\ r.pc = "sent"
    /\ reads' = (reads \ {r}) \cup {[pc |-> "answered", data |-> FreshRead(sos_alerts)]}
    /\ last' = "readExecutes"
    /\ UNCHANGED <<outsidePolice, sos_alerts, storage, now, unit, mounted, alerts,
                   events, readFailed>>

\* if (!error && data) setAlerts(data)
ShownAfter(r, ok) == IF ok THEN r.data ELSE alerts

\* Continuation of fetchAlerts after the await, for any pending read whose
\* answer arrived: responses arrive in any order.
readReturns(r, ok) ==
    /\ unit = "police"
    /\ r \in reads
    /\ r.pc = "answered"
    /\ reads' = reads \ {r}
    /\ alerts' = ShownAfter(r, ok)
    /\ readFailed' = (readFailed \/ ~ok)
    /\ last' = IF ok THEN "readOk" ELSE "readFailed"
    /\ UNCHANGED <<outsidePolice, sos_alerts, storage, now, unit, mounted, events>>

RemoteUpdateStep == \E i \in 1..MaxAlerts : remoteUpdate(i)
ReadExecutesStep == \E r \in reads : readExecutes(r)
ReadReturnsStep == \E r \in reads, ok \in BOOLEAN : readReturns(r, ok)

\* ---- supabase/functions/send-sos-notification ----
\* const chunkSize = 100
chunkSize == 100

\* values of the push_token column: null, the empty string, or a token
NullToken == -1
EmptyToken == 0

\* The profiles tables the request may find: all tokens distinct; rows
\* without a token among the others; a device token stored in two profiles.
Patterns == {"distinct", "holes", "shared"}
TokenOf(pattern, k) ==
    IF pattern = "distinct" THEN k
    ELSE IF pattern = "shared" THEN (k + 1) \div 2
    ELSE IF k % 3 = 0 THEN NullToken ELSE IF k % 3 = 1 THEN EmptyToken ELSE k
Table(n, pattern) == [k \in 1..n |-> TokenOf(pattern, k)]
Sizes == {2} \cup {c * chunkSize + d : c \in 0..MaxChunks, d \in {0, 1}}

\* .select('push_token, role').not('push_token', 'is', null)
NotNull(t) == t # NullToken
ProfilesQuery(table) == SelectSeq(table, NotNull)

\* .map(p => p.push_token).filter(Boolean)
Truthy(t) == t # NullToken /\ t # EmptyToken
Tokens(rows) == SelectSeq(rows, Truthy)

\* tokens.map(token => ({ to: token, ..., data: { alert_id, lat, lng } }))
Messages(toks, req) == [k \in DOMAIN toks |-> [to |-> toks[k], data |-> req]]

\* messages.slice(i, i + chunkSize)
Slice(msgs, i) ==
    SubSeq(msgs, i + 1, IF i + chunkSize < Len(msgs) THEN i + chunkSize ELSE Len(msgs))

\* if (!alert_id)
MissingId_never(req) == FALSE
MissingId(req) == req.alert_id = 0

\* The request arrives: the body is parsed and, with an alert_id, the
\* profiles query is sent.
relayRequest(id, coords, n, pattern) ==
    /\ unit = "relay"
    /\ relayPc = "idle"
    /\ request' = [alert_id |-> id, lat |-> coords[1], lng |-> coords[2]]
    /\ profiles' = Table(n, pattern)
    /\ IF MissingId(request')
       THEN /\ relayPc' = "done"
            /\ response' = [status |-> 400, sent |-> 0]
       ELSE /\ relayPc' = "query"
            /\ UNCHANGED response
    /\ last' = "relayRequest"
    /\ UNCHANGED <<outsideRelay, tokens, loopIndex, posted>>

\* The body of the request is not JSON: req.json() throws into the catch.
relayBadBody ==
    /\ unit = "relay"
    /\ relayPc = "idle"
    /\ relayPc' = "done"
    /\ response' = [status |-> 500, sent |-> 0]
    /\ last' = "relayBadBody"
    /\ UNCHANGED <<outsideRelay, request, profiles, tokens, loopIndex, posted>>

\* Continuation after the profiles query: the token list, the messages and
\* the POST of the first chunk.
relayQueryReturns(ok) ==
    /\ unit = "relay"
    /\ relayPc = "query"
    /\ last' = IF ok THEN "relayQueryOk" ELSE "relayQueryFailed"
    /\ IF ~ok
       THEN /\ relayPc' = "done"
            /\ response' = [status |-> 500, sent |-> 0]
            /\ UNCHANGED <<tokens, loopIndex, posted>>
       ELSE /\ tokens' = Tokens(ProfilesQuery(profiles))
            /\ loopIndex' = 0
            /\ IF Len(tokens') = 0
               THEN /\ relayPc' = "done"
                    /\ response' = [status |-> 200, sent |-> 0]
                    /\ UNCHANGED posted
               ELSE /\ relayPc' = "post"
                    /\ posted' = Append(posted, Slice(Messages(tokens', request), 0))
                    /\ UNCHANGED response
    /\ UNCHANGED <<outsideRelay, request, profiles>>

PostOutcomes == {"ok", "error", "throw"}

\* Continuation after the POST of a chunk and res.json(): the body is kept
\* whatever the HTTP status, then the next chunk is posted or the handler
\* answers; a thrown fetch or json error goes to the catch.
relayPostReturns(outcome) ==
    /\ unit = "relay"
    /\ relayPc = "post"
    /\ last' = IF outcome = "ok" THEN "relayPostOk"
               ELSE IF outcome = "error" THEN "relayPostError" ELSE "relayPostThrow"
    /\ IF outcome = "throw"
       THEN /\ relayPc' = "done"
            /\ response' = [status |-> 500, sent |-> 0]
            /\ UNCHANGED <<loopIndex, posted>>
       ELSE /\ loopIndex' = loopIndex + chunkSize
            /\ IF loopIndex' < Len(tokens)
               THEN /\ posted' = Append(posted,
                                        Slice(Messages(tokens, request), loopIndex'))
                    /\ UNCHANGED <<relayPc, response>>
               ELSE /\ relayPc' = "done"
                    /\ response' = [status |-> 200, sent |-> Len(tokens)]
                    /\ UNCHANGED posted
    /\ UNCHANGED <<outsideRelay, request, profiles, tokens>>

RelayRequestStep == \E id \in {0, 1}, c \in Coords, n \in Sizes, p \in Patterns :
                        relayRequest(id, c, n, p)
RelayQueryStep == \E ok \in BOOLEAN : relayQueryReturns(ok)
RelayPostStep == \E o \in PostOutcomes : relayPostReturns(o)

\* ---- app/(citizen)/_layout.tsx: the report screen ----
\* texts typed into the description field and photos picked (the uri's
\* extension; "" is no photo)
Descriptions == {"", " ", " lamp "}
\* location.coords of the one place the reporter stands at
ReportCoords == {<<1, 2>>}
Photos == {"", "jpg"}

\* description.trim()
Trim(d) == IF d = " " THEN "" ELSE IF d = " lamp " THEN "lamp" ELSE d

\* onChangeText={setDescription}
editDescription(d) ==
    /\ unit = "report"
    /\ d # description
    /\ description' = d
    /\ last' = "editDescription"
    /\ UNCHANGED <<outsideReport, now, photoUri, reportLoading, submitted, reports,
                   reportStorage, reportAct, reportTimeouts, reportDialog,
                   submissions>>

\* pickPhoto, pickFromLibrary and the remove button: setPhotoUri
choosePhoto(p) ==
    /\ unit = "report"
    /\ p # photoUri
    /\ photoUri' = p
    /\ last' = "choosePhoto"
    /\ UNCHANGED <<outsideReport, now, description, reportLoading, submitted,
                   reports, reportStorage, reportAct, reportTimeouts,
                   reportDialog, submissions>>

\* if (!description.trim()) { Alert.alert('Required', ...); return; }
Valid(d) == Trim(d) # ""

\* The press on SUBMIT REPORT (the button is disabled while loading), up to
\* the await of the location read.
submitReport ==
    /\ unit = "report"
    /\ ~reportLoading
    /\ last' = "submitReport"
    /\ IF ~Valid(description)
       THEN /\ reportDialog' = "Required"
            /\ UNCHANGED <<reportLoading, reportAct, submissions>>
       ELSE /\ submissions < MaxSubmits
            /\ submissions' = submissions + 1
            /\ reportLoading' = TRUE
            /\ reportAct' = [NoReport EXCEPT !.pc = "loc",
                                             !.description = description,
                                             !.photoUri = photoUri]
            /\ UNCHANGED reportDialog
    /\ UNCHANGED <<outsideReport, now, description, photoUri, submitted, reports,
                   reportStorage, reportTimeouts>>

\* catch { Alert.alert('Submission Failed', ...) } finally { setLoading(false) }
reportCatch ==
    /\ reportDialog' = "Submission Failed"
    /\ reportLoading' = FALSE
    /\ reportAct' = NoReport
    /\ UNCHANGED <<description, photoUri, submitted, reports, reportTimeouts>>

\* const fileName = `report_${Date.now()}.${ext}`
ReportFileName(t, ext) == <<"report", t, ext>>

\* Continuation after the location read, whose failure is only logged:
\* with a photo the name is built and the file fetched, without one the
\* insert is issued.
reportLocationReturns(ok, coords, t) ==
    /\ unit = "report"
    /\ reportAct.pc = "loc"
    /\ last' = IF ok THEN "reportLocationOk" ELSE "reportLocationFailed"
    /\ t >= now
    /\ IF reportAct.photoUri # ""
       THEN /\ now' = t
            /\ reportAct' = [reportAct EXCEPT
                                !.pc = "fetch",
                                !.lat = IF ok THEN coords[1] ELSE 0,
                                !.lng = IF ok THEN coords[2] ELSE 0,
                                !.name = ReportFileName(t, reportAct.photoUri)]
       ELSE /\ t = now
            /\ UNCHANGED now
            /\ reportAct' = [reportAct EXCEPT
                                !.pc = "insert",
                                !.lat = IF ok THEN coords[1] ELSE 0,
                                !.lng = IF ok THEN coords[2] ELSE 0]
    /\ UNCHANGED <<outsideReport, description, photoUri, reportLoading, submitted,
                   reports, reportStorage, reportTimeouts, reportDialog,
                   submissions>>

\* Continuation after fetch(photoUri) and response.blob(): the upload is
\* issued; a thrown fetch goes to the catch.
reportFetchReturns(ok) ==
    /\ unit = "report"
    /\ reportAct.pc = "fetch"
    /\ last' = IF ok THEN "reportFetchOk" ELSE "reportFetchFailed"
    /\ IF ~ok
       THEN reportCatch
       ELSE /\ reportAct' = [reportAct EXCEPT !.pc = "upload"]
            /\ UNCHANGED <<description, photoUri, reportLoading, submitted, reports,
                           reportTimeouts, reportDialog>>
    /\ UNCHANGED <<outsideReport, now, reportStorage, submissions>>

\* the bucket's answer to upload(fileName, blob, { upsert: false })
ReportStored(name, ok) == ok /\ name \notin reportStorage

\* if (uploadError) throw uploadError;
ReportUploadThrows_never(stored) == FALSE
ReportUploadThrows(stored) == ~stored

\* Continuation after the upload: photoPath = fileName and the insert is
\* issued, or the error is thrown.
reportUploadReturns(ok) ==
    /\ unit = "report"
    /\ reportAct.pc = "upload"
    /\ last' = IF ReportStored(reportAct.name, ok)
               THEN "reportUploadOk" ELSE "reportUploadFailed"
    /\ reportStorage' = IF ReportStored(reportAct.name, ok)
                        THEN reportStorage \cup {reportAct.name} ELSE reportStorage
    /\ IF ReportUploadThrows(ReportStored(reportAct.name, ok))
       THEN reportCatch
       ELSE /\ reportAct' = [reportAct EXCEPT !.pc = "insert"]
            /\ UNCHANGED <<description, photoUri, reportLoading, submitted, reports,
                           reportTimeouts, reportDialog>>
    /\ UNCHANGED <<outsideReport, now, submissions>>

\* insert({ user_id, description: description.trim(), lat, lng, photo_path,
\* status: 'open' })
ReportRow_closed(a) ==
    [user_id |-> sessionUser, description |-> Trim(a.description), lat |-> a.lat,
     lng |-> a.lng, photo_path |-> a.name, status |-> "resolved"]
ReportRow(a) ==
    [user_id |-> sessionUser, description |-> Trim(a.description), lat |-> a.lat,
     lng |-> a.lng, photo_path |-> a.name, status |-> "open"]

\* Continuation after the insert: the form is cleared and the 3 s timeout
\* armed, or the error is thrown; finally setLoading(false).
reportInsertReturns(ok) ==
    /\ unit = "report"
    /\ reportAct.pc = "insert"
    /\ last' = IF ok THEN "reportInsertOk" ELSE "reportInsertFailed"
    /\ IF ~ok
       THEN reportCatch
       ELSE /\ reports' = Append(reports, ReportRow(reportAct))
            /\ submitted' = TRUE
            /\ description' = ""
            /\ photoUri' = ""
            /\ reportTimeouts' = reportTimeouts + 1
            /\ reportLoading' = FALSE
            /\ reportAct' = NoReport
            /\ UNCHANGED reportDialog
    /\ UNCHANGED <<outsideReport, now, reportStorage, submissions>>

\* setTimeout(() => setSubmitted(false), 3000)
reportTimeout ==
    /\ unit = "report"
    /\ reportTimeouts > 0
    /\ reportTimeouts' = reportTimeouts - 1
    /\ submitted' = FALSE
    /\ last' = "reportTimeout"
    /\ UNCHANGED <<outsideReport, now, description, photoUri, reportLoading,
                   reports, reportStorage, reportAct, reportDialog, submissions>>

\* the user closes the alert
dismissReportDialog ==
    /\ unit = "report"
    /\ reportDialog # "none"
    /\ reportDialog' = "none"
    /\ last' = "dismissReportDialog"
    /\ UNCHANGED <<outsideReport, now, description, photoUri, reportLoading,
                   submitted, reports, reportStorage, reportAct, reportTimeouts,
                   submissions>>

EditDescriptionStep == \E d \in Descriptions : editDescription(d)
ChoosePhotoStep == \E p \in Photos : choosePhoto(p)
ReportLocationStep == \E ok \in BOOLEAN, c \in ReportCoords, t \in 0..MaxNow :
                          reportLocationReturns(ok, c, t)
ReportFetchStep == \E ok \in BOOLEAN : reportFetchReturns(ok)
ReportUploadStep == \E ok \in BOOLEAN : reportUploadReturns(ok)
ReportInsertStep == \E ok \in BOOLEAN : reportInsertReturns(ok)

\* ---- AuthProvider, useProtectedRoute and the login screen ----
\* if (session?.user) { const p = await fetchProfile(...) }
StartFetch(u) == profileFetches' = profileFetches \cup {u}

\* supabase.auth.getSession().then(...) up to its await or its end
getSessionReturns ==
    /\ unit = "auth"
    /\ getSessionPending
    /\ getSessionPending' = FALSE
    /\ session' = storedSession
    /\ IF storedSession # 0
       THEN /\ StartFetch(storedSession)
            /\ UNCHANGED loading
       ELSE /\ loading' = FALSE
            /\ UNCHANGED profileFetches
    /\ effectDue' = TRUE
    /\ last' = "getSessionReturns"
    /\ UNCHANGED <<outsideAuth, profile, segment, storedSession, authEvents,
                   loginPending>>

\* The onAuthStateChange callback up to its await or its end.
authStateChange ==
    /\ unit = "auth"
    /\ authEvents # <<>>
    /\ authEvents' = Tail(authEvents)
    /\ session' = Head(authEvents)
    /\ IF Head(authEvents) # 0
       THEN /\ StartFetch(Head(authEvents))
            /\ UNCHANGED <<profile, loading>>
       ELSE /\ profile' = 0
            /\ loading' = FALSE
            /\ UNCHANGED profileFetches
    /\ effectDue' = TRUE
    /\ last' = "authStateChange"
    /\ UNCHANGED <<outsideAuth, segment, storedSession, getSessionPending,
                   loginPending>>

\* fetchProfile: if (error) return null; return data
FetchedProfile(u, ok) == IF ok THEN u ELSE 0

\* Continuation after fetchProfile in either caller: setProfile(p);
\* setLoading(false).
profileReturns(u, ok) ==
    /\ unit = "auth"
    /\ u \in profileFetches
    /\ profileFetches' = profileFetches \ {u}
    /\ profile' = FetchedProfile(u, ok)
    /\ loading' = FALSE
    /\ effectDue' = TRUE
    /\ last' = IF ok THEN "profileOk" ELSE "profileFailed"
    /\ UNCHANGED <<outsideAuth, session, segment, storedSession, getSessionPending,
                   authEvents, loginPending>>

\* if (loading) return;
RouteGuard == loading

\* the route useProtectedRoute replaces the current one with, if any
Redirect ==
    IF session = 0 /\ segment # "(auth)" THEN "(auth)"
    ELSE IF session # 0 /\ profile # 0
         THEN IF RoleOf(profile) = "citizen" /\ segment # "(citizen)" THEN "(citizen)"
              ELSE IF RoleOf(profile) = "police" /\ segment # "(police)" THEN "(police)"
              ELSE segment
         ELSE segment

\* The effect of useProtectedRoute, run after a render in which session,
\* profile, loading or segments changed.
routeEffect ==
    /\ unit = "auth"
    /\ effectDue
    /\ last' = "routeEffect"
    /\ IF RouteGuard
       THEN /\ effectDue' = FALSE
            /\ UNCHANGED segment
       ELSE /\ segment' = Redirect
            /\ effectDue' = (Redirect # segment)
    /\ UNCHANGED <<outsideAuth, session, profile, loading, storedSession,
                   getSessionPending, authEvents, profileFetches, loginPending>>

\* The user or a link opens a route of another group.
navigate(g) ==
    /\ unit = "auth"
    /\ g # segment
    /\ segment' = g
    /\ effectDue' = TRUE
    /\ last' = "navigate"
    /\ UNCHANGED <<outsideAuth, session, profile, loading, storedSession,
                   getSessionPending, authEvents, profileFetches, loginPending>>

\* handleLogin up to the await of signIn; empty fields only raise an alert.
handleLogin(filled, u) ==
    /\ unit = "auth"
    /\ segment = "(auth)"
    /\ loginPending = 0
    /\ loginPending' = IF filled THEN u ELSE 0
    /\ last' = "handleLogin"
    /\ UNCHANGED <<outsideAuth, session, profile, loading, segment, storedSession,
                   getSessionPending, authEvents, profileFetches, effectDue>>

\* signInWithPassword answers: on success the client emits the auth state
\* change; handleLogin leaves the navigation to the route guard.
signInReturns(ok) ==
    /\ unit = "auth"
    /\ loginPending # 0
    /\ Len(authEvents) < MaxAuthEvents
    /\ loginPending' = 0
    /\ authEvents' = IF ok THEN Append(authEvents, loginPending) ELSE authEvents
    /\ last' = IF ok THEN "signInOk" ELSE "signInFailed"
    /\ UNCHANGED <<outsideAuth, session, profile, loading, segment, storedSession,
                   getSessionPending, profileFetches, effectDue>>

\* signOut: supabase.auth.signOut() emits the auth state change with no
\* session.
signOut ==
    /\ unit = "auth"
    /\ session # 0
    /\ Len(authEvents) < MaxAuthEvents
    /\ authEvents' = Append(authEvents, 0)
    /\ last' = "signOut"
    /\ UNCHANGED <<outsideAuth, session, profile, loading, segment, storedSession,
                   getSessionPending, profileFetches, effectDue, loginPending>>

ProfileStep == \E u \in Users, ok \in BOOLEAN : profileReturns(u, ok)
NavigateStep == \E g \in Groups : navigate(g)
HandleLoginStep == \E filled \in BOOLEAN, u \in Users : handleLogin(filled, u)
SignInStep == \E ok \in BOOLEAN : signInReturns(ok)

\* ---- specification ----
LocationStep == \E s \in Slots, ok \in BOOLEAN, c \in Coords :
                    locationReturns(s, ok, c)
InsertStep == \E s \in Slots, ok \in BOOLEAN : insertReturns(s, ok)
PushStep == \E s \in Slots, o \in PushOutcomes : pushReturns(s, o)
ResolveStep == \E d \in deacts, ok \in BOOLEAN : resolveReturns(d, ok)
RecordingStep == \E r \in recs, o \in RecOutcomes, e \in Exts, t \in 0..MaxNow :
                    recordingSettles(r, o, e, t)
FetchStep == \E u \in uploads, ok \in BOOLEAN : fetchReturns(u, ok)
UploadStep == \E u \in uploads, ok \in BOOLEAN : uploadReturns(u, ok)
UpdateStep == \E u \in uploads, ok \in BOOLEAN : updateReturns(u, ok)

Next ==
    \/ \E cam, mic \in BOOLEAN : requestAll(cam, mic)
    \/ activateSOS
    \/ LocationStep
    \/ InsertStep
    \/ PushStep
    \/ deactivateSOS
    \/ ResolveStep
    \/ RecordingStep
    \/ FetchStep
    \/ UploadStep
    \/ UpdateStep
    \/ timeoutPlain
    \/ timeoutReset
    \/ tick
    \/ dismissDialog
    \/ demoCameraMounts
    \/ startSOS
    \/ DemoLocationStep
    \/ DemoInsertStep
    \/ stopSOS
    \/ DemoRecordingStep
    \/ DemoReadStep
    \/ DemoUploadStep
    \/ DemoUpdateStep
    \/ pivotCameraMounts
    \/ handleSOS
    \/ PivotLocationStep
    \/ PivotTimeoutStep
    \/ PivotRecordingStep
    \/ PivotFetchStep
    \/ PivotUploadStep
    \/ PivotInsertStep
    \/ EvidenceUploadStep
    \/ policeMount
    \/ remoteInsert
    \/ RemoteUpdateStep
    \/ duplicateEvent
    \/ eventDelivered
    \/ ReadExecutesStep
    \/ ReadReturnsStep
    \/ RelayRequestStep
    \/ relayBadBody
    \/ RelayQueryStep
    \/ RelayPostStep
    \/ EditDescriptionStep
    \/ ChoosePhotoStep
    \/ submitReport
    \/ ReportLocationStep
    \/ ReportFetchStep
    \/ ReportUploadStep
    \/ ReportInsertStep
    \/ reportTimeout
    \/ dismissReportDialog
    \/ getSessionReturns
    \/ authStateChange
    \/ ProfileStep
    \/ routeEffect
    \/ NavigateStep
    \/ HandleLoginStep
    \/ SignInStep
    \/ signOut

Spec == Init /\ [][Next]_vars

\* Every external call eventually returns, every timer eventually fires and
\* the user eventually presses STOP while the session is active.
FairSpec ==
    /\ Spec
    /\ WF_vars(LocationStep)
    /\ WF_vars(InsertStep)
    /\ WF_vars(PushStep)
    /\ WF_vars(deactivateSOS /\ sosStatus = "active")
    /\ WF_vars(ResolveStep)
    /\ WF_vars(RecordingStep)
    /\ WF_vars(FetchStep)
    /\ WF_vars(UploadStep)
    /\ WF_vars(UpdateStep)
    /\ WF_vars(timeoutPlain)
    /\ WF_vars(timeoutReset)

\* ---- properties ----
\* alert ids with a pending recording, upload or update continuation
PendingIds == {r.id : r \in recs} \cup {u.id : u \in uploads} \cup {d.id : d \in deacts}

\* C1: a call of activateSOS made while sosStatus is not 'idle' requests no
\* location, inserts no row and changes no state of the screen; no session
\* (from leaving 'idle' to the return to 'idle') inserts more than one row.
C1_ActivateIdempotent ==
    [][/\ (last' = "activateSOS" /\ sosStatus # "idle")
            => UNCHANGED <<progVars, rowsThisSession>>
       /\ rowsThisSession' <= 1]_vars

C1_Witness ==
    /\ last = "activateSOS"
    /\ sosStatus = "active"
    /\ rowsThisSession = 1

\* C2: the step that reaches 'active' finds exactly one row inserted by this
\* activation, still 'active', with the coordinates read and no video_path,
\* and no recording, upload or update of that row exists before that step;
\* the insert step appends exactly that row.
C2_InsertBeforeEvidence ==
    [][/\ (sosStatus' = "active" /\ sosStatus # "active") =>
            /\ rowsThisSession = 1
            /\ \E s \in Slots :
                 /\ acts[s].pc = "push"
                 /\ acts[s].id = Len(sos_alerts)
                 /\ acts[s].id \notin PendingIds
                 /\ sos_alerts[acts[s].id].status = "active"
                 /\ sos_alerts[acts[s].id].lat = acts[s].lat
                 /\ sos_alerts[acts[s].id].lng = acts[s].lng
                 /\ acts[s].lat # 0 /\ acts[s].lng # 0
                 /\ sos_alerts[acts[s].id].video_path = NoPath
       /\ (last' = "insertOk") =>
            /\ Len(sos_alerts') = Len(sos_alerts) + 1
            /\ Len(sos_alerts') \notin PendingIds'
            /\ storage' = storage
            /\ \E s \in Slots :
                 /\ acts[s].pc = "insert"
                 /\ sos_alerts' = Append(sos_alerts,
                        [user_id |-> sessionUser, lat |-> acts[s].lat,
                         lng |-> acts[s].lng, status |-> "active",
                         video_path |-> NoPath, created_at |-> now])]_vars

C2_Witness ==
    /\ sosStatus = "active"
    /\ last \in {"pushOk", "pushError", "pushThrow"}
    /\ rowsThisSession = 1
    /\ alertId = Len(sos_alerts)
    /\ \E r \in recs : r.id = alertId

\* C3 (as claimed): when the session was stopped and the upload succeeded,
\* the step that ends uploadEvidence leaves the row with video_path set to
\* the uploaded name and status 'resolved'; an update is pending only for a
\* name that is already in the bucket.
C3_Claim ==
    [][/\ \A u \in uploads' : u.pc = "update" => u.name \in storage'
       /\ (last' \in {"updateOk", "updateRejected"} /\ sosStatus = "uploading") =>
            \A u \in uploads \ uploads' :
                /\ sos_alerts'[u.id].video_path = u.name
                /\ sos_alerts'[u.id].status = "resolved"]_vars

\* C4 (as claimed): deactivateSOS in 'active' without a running capture ends
\* with the row 'resolved', video_path null, no upload started, the
\* controller in 'done', and 'idle' after the timeout.
C4_Claim ==
    [][/\ (last' \in {"resolveOk", "resolveRejected"}) =>
            /\ sosStatus' = "done"
            /\ uploads' = {}
            /\ \A d \in deacts \ deacts' :
                 /\ sos_alerts'[d.id].status = "resolved"
                 /\ sos_alerts'[d.id].video_path = NoPath
       /\ (last' = "timeoutPlain") => sosStatus = "done" /\ sosStatus' = "idle"]_vars

\* C5: when the push call fails (returned error or thrown), the table is
\* unchanged with the row still active and without evidence path, no dialog
\* is shown, and the controller reaches 'active', with the recording started
\* when the activation's render allowed it.
C5_PushFailureAbsorbed ==
    [][(last' \in {"pushError", "pushThrow"}) =>
          /\ sos_alerts' = sos_alerts
          /\ dialog' = dialog
          /\ sosStatus' = "active"
          /\ \E s \in Slots :
               /\ acts[s].pc = "push"
               /\ acts'[s].pc = "none"
               /\ sos_alerts'[acts[s].id].status = "active"
               /\ sos_alerts'[acts[s].id].video_path = NoPath
               /\ acts[s].canRecord =>
                     /\ isRecordingRef'
                     /\ [id |-> acts[s].id, stopped |-> FALSE] \in recs']_vars

C5_Witness ==
    /\ last \in {"pushError", "pushThrow"}
    /\ sosStatus = "active"
    /\ dialog = "none"
    /\ \E r \in recs : r.id = alertId

\* C6: a failed location read or insert adds no row (the session has none),
\* returns the controller to 'idle', shows the error dialog, starts no
\* recording and leaves no location read or insert pending.
C6_ActivationFailure ==
    [][(last' \in {"locationFailed", "insertFailed"}) =>
          /\ sos_alerts' = sos_alerts
          /\ rowsThisSession' = 0
          /\ sosStatus' = "idle"
          /\ dialog' = "SOS Error"
          /\ recs' = recs
          /\ isRecordingRef' = isRecordingRef
          /\ \A s \in Slots : acts'[s].pc = "none"]_vars

C6_Witness ==
    /\ last = "locationFailed"
    /\ sosStatus = "idle"
    /\ dialog = "SOS Error"
    /\ sos_alerts = <<>>

\* C7: when the fetch or the upload of the evidence fails after stop, the
\* table is unchanged with the row still active and without video_path, no
\* update is pending, the error dialog is shown and the controller goes from
\* 'uploading' to 'idle'.
C7_UploadFailure ==
    [][(last' \in {"fetchFailed", "uploadFailed"} /\ sosStatus = "uploading") =>
          /\ sos_alerts' = sos_alerts
          /\ dialog' = "Upload Failed"
          /\ sosStatus' = "idle"
          /\ deacts' = {}
          /\ \A u \in uploads \ uploads' :
               /\ sos_alerts'[u.id].status = "active"
               /\ sos_alerts'[u.id].video_path = NoPath
               /\ \A v \in uploads' : v.id # u.id]_vars

C7_Witness ==
    /\ last = "uploadFailed"
    /\ sosStatus = "idle"
    /\ dialog = "Upload Failed"
    /\ ~isRecordingRef
    /\ alertId # 0
    /\ sos_alerts[alertId].status = "active"

\* C8: at most one session is in flight: at most one activation is
\* suspended, at most one alert has a pending recording, upload or update,
\* and while an activation is suspended (so whenever it inserts) no
\* recording, upload or update of another alert is pending.
C8_SingleSession ==
    /\ Cardinality(InFlight) <= 1
    /\ Cardinality(PendingIds) <= 1
    /\ Cardinality(recs) + Cardinality(uploads) + Cardinality(deacts) <= 1
    /\ InFlight # {} => PendingIds = {}
    /\ sosStatus = "idle" => InFlight = {} /\ PendingIds = {}

C8_Witness ==
    /\ Len(sos_alerts) = 1
    /\ \E s \in Slots : acts[s].pc = "insert"
    /\ storage # {}

\* C9 (as claimed): every session that leaves 'idle' returns to 'idle'.
C9_Claim == (sosStatus # "idle") ~> (sosStatus = "idle")

\* C10 (as claimed): sosStatus changes only along the listed transitions.
AllowedTransitions ==
    {<<"idle", "activating">>, <<"activating", "active">>,
     <<"active", "uploading">>, <<"uploading", "done">>, <<"done", "idle">>,
     <<"activating", "idle">>, <<"active", "idle">>, <<"uploading", "idle">>}

C10_Claim ==
    [][sosStatus' # sosStatus => <<sosStatus, sosStatus'>> \in AllowedTransitions]_vars

\* C11 (as claimed): whenever sosStatus is 'idle' the session is cleared:
\* alertId is null and elapsedSeconds is 0.
C11_Claim == sosStatus = "idle" => alertId = 0 /\ elapsedSeconds = 0

\* C12 (as claimed): the push call does not hold the activation: while a
\* push call is outstanding the controller has already left 'activating'.
C12_Claim == \A s \in Slots : acts[s].pc = "push" => sosStatus # "activating"

\* C13: a call of deactivateSOS made while sosStatus is not 'active' stops no
\* timer and no recording, issues no update and changes no state.
C13_DeactivateNoop ==
    [][(last' = "deactivateSOS" /\ sosStatus # "active")
          => UNCHANGED <<progVars, rowsThisSession>>]_vars

C13_Witness ==
    /\ last = "deactivateSOS"
    /\ sosStatus = "done"
    /\ Len(sos_alerts) = 1

\* C14: when the push call returns and capture cannot start (web, or the
\* camera or microphone permission is missing), the controller reaches
\* 'active' with the row inserted and its id in alertId, no recording is
\* started and isRecordingRef is and stays false.
C14_ActiveWithoutCapture ==
    [][(/\ last' \in {"pushOk", "pushError", "pushThrow"}
        /\ (platformWeb \/ ~permissions.camera \/ ~permissions.microphone)) =>
          /\ sosStatus' = "active"
          /\ alertId' # 0
          /\ alertId' = Len(sos_alerts')
          /\ rowsThisSession' = 1
          /\ sos_alerts'[alertId'].status = "active"
          /\ ~isRecordingRef /\ ~isRecordingRef'
          /\ recs' = {}]_vars

C14_Witness ==
    /\ last \in {"pushOk", "pushError", "pushThrow"}
    /\ sosStatus = "active"
    /\ ~permPending /\ permissions.camera /\ ~permissions.microphone
    /\ ~platformWeb
    /\ alertId = 1
    /\ recs = {}

\* C17: every update of the screen addresses the row its own session
\* inserted: a pending update (of deactivateSOS or of uploadEvidence) names
\* the newest row, which this session inserted, and a step changes no other
\* existing row.
C17_UpdatesOwnRow ==
    [][unit = "sos" =>
        /\ \A d \in deacts' : d.id = Len(sos_alerts') /\ rowsThisSession' = 1
        /\ \A u \in uploads' : u.id = Len(sos_alerts') /\ rowsThisSession' = 1
        /\ \A i \in DOMAIN sos_alerts :
              sos_alerts'[i] # sos_alerts[i] =>
                 i = Len(sos_alerts) /\ rowsThisSession = 1]_vars

C17_Witness ==
    /\ unit = "sos"
    /\ last = "resolveOk"
    /\ Len(sos_alerts) = 2
    /\ sos_alerts[1].status = "active"
    /\ sos_alerts[2].status = "resolved"

\* C15: every step of any SOS controller leaves lat, lng, user_id and
\* created_at of every existing alert row as the insert wrote them; the
\* resolve and evidence updates change status and video_path only.
C15_CoordinatesFrozen ==
    [][\A i \in DOMAIN sos_alerts :
          /\ i \in DOMAIN sos_alerts'
          /\ sos_alerts'[i].lat = sos_alerts[i].lat
          /\ sos_alerts'[i].lng = sos_alerts[i].lng
          /\ sos_alerts'[i].user_id = sos_alerts[i].user_id
          /\ sos_alerts'[i].created_at = sos_alerts[i].created_at]_vars

\* An evidence update was applied to a row inserted at an earlier time: the
\* row carries the path and its coordinates and the time of its insert.
C15_Witness ==
    /\ last \in {"updateOk", "demoUpdateOk"}
    /\ \E i \in DOMAIN sos_alerts :
          /\ sos_alerts[i].video_path # NoPath
          /\ sos_alerts[i].status = "resolved"
          /\ sos_alerts[i].lat # 0
          /\ sos_alerts[i].created_at < now

\* C16: a row's video_path is null until its upload has succeeded: every
\* non-null video_path names an object of the store, and the object was
\* stored before the step that wrote the path into the row.
C16_PathNamesStoredObject ==
    /\ [](\A i \in DOMAIN sos_alerts :
             sos_alerts[i].video_path # NoPath => sos_alerts[i].video_path \in storage)
    /\ [][\A i \in DOMAIN sos_alerts' :
             (/\ sos_alerts'[i].video_path # NoPath
              /\ (i \in DOMAIN sos_alerts =>
                     sos_alerts[i].video_path # sos_alerts'[i].video_path))
                => sos_alerts'[i].video_path \in storage]_vars

\* The demo dashboard wrote the path of a stored object into its row.
C16_Witness ==
    /\ last = "demoUpdateOk"
    /\ \E i \in DOMAIN sos_alerts : /\ sos_alerts[i].video_path # NoPath
                                    /\ sos_alerts[i].video_path \in storage

\* C18: an evidence upload never overwrites: the name carries the alert id
\* and the clock reading of the upload, uploads of different alerts have
\* different names, and an upload whose name is already in the store is
\* refused and leaves every stored object as it was.
C18_NoOverwrite ==
    [][last' \in {"bucketStored", "bucketRefused"} =>
         LET a == tried'[Len(tried')]
         IN /\ a.name[2] = a.id
            /\ a.name[3] = now'
            /\ \A i \in DOMAIN tried : tried[i].id # a.id => tried[i].name # a.name
            /\ blobs \subseteq blobs'
            /\ (\E o \in blobs : o.name = a.name) =>
                  /\ last' = "bucketRefused"
                  /\ blobs' = blobs]_vars

\* A second upload of the same alert in the same millisecond, with another
\* recording, was refused: the store keeps the first recording.
C18_Witness ==
    /\ last = "bucketRefused"
    /\ Len(tried) = 2
    /\ tried[1].name = tried[2].name
    /\ tried[1].blob # tried[2].blob
    /\ blobs = {[name |-> tried[1].name, blob |-> tried[1].blob]}

\* C19: once every change event is delivered and every read the events and
\* the mount triggered has completed without error, the dashboard's list is
\* a fresh read of the alert table.
C19_Claim ==
    (/\ unit = "police" /\ mounted /\ events = 0 /\ reads = {} /\ ~readFailed)
        => alerts = FreshRead(sos_alerts)

RECURSIVE Flatten(_)
\* the messages of a sequence of posted bodies, in order
Flatten(chunks) ==
    IF chunks = <<>> THEN <<>> ELSE Head(chunks) \o Flatten(Tail(chunks))

\* the relay answered 200 with a sent count after posting
RelaySucceeded == unit = "relay" /\ relayPc = "done" /\ response.status = 200
                  /\ posted # <<>>

\* the posted bodies are consecutive chunks of at most chunkSize messages,
\* one message per entry of the token list, in its order, with the alert's
\* id and coordinates
ChunksCoverTokens ==
    /\ \A c \in DOMAIN posted : Len(posted[c]) \in 1..chunkSize
    /\ \A c \in DOMAIN posted : c < Len(posted) => Len(posted[c]) = chunkSize
    /\ Flatten(posted) = Messages(Tokens(profiles), request)

\* C20: when the relay reports success, every non-null, non-empty
\* push_token of the profiles table was sent exactly one message carrying
\* the alert id and coordinates, the posted chunks are consecutive, at most
\* 100 long and cover the tokens, and 'sent' is the number of tokens.
C20_Claim ==
    RelaySucceeded =>
        /\ \A k \in DOMAIN profiles : Truthy(profiles[k]) =>
              Cardinality({j \in DOMAIN Flatten(posted) :
                              Flatten(posted)[j].to = profiles[k]}) = 1
        /\ \A j \in DOMAIN Flatten(posted) : Flatten(posted)[j].data = request
        /\ ChunksCoverTokens
        /\ response.sent = Len(Tokens(profiles))

\* C22: the status of an alert row is 'active' or 'resolved'; a row is
\* inserted 'active' by the SOS screen; it becomes 'resolved' only by the
\* evidence update that follows a stored upload or by the update of a stop
\* without capture, which leaves the path null; a 'resolved' row is never
\* set back.
C22_StatusLifecycle ==
    /\ [](\A i \in DOMAIN sos_alerts : sos_alerts[i].status \in {"active", "resolved"})
    /\ [][/\ \A i \in DOMAIN sos_alerts :
                sos_alerts[i].status = "resolved" => sos_alerts'[i].status = "resolved"
          /\ unit = "sos" =>
                /\ \A i \in DOMAIN sos_alerts' \ DOMAIN sos_alerts :
                      sos_alerts'[i].status = "active"
                /\ \A i \in DOMAIN sos_alerts :
                      (sos_alerts[i].status = "active" /\ sos_alerts'[i].status = "resolved")
                         => \/ /\ last' = "updateOk"
                               /\ sos_alerts'[i].video_path \in storage
                            \/ /\ last' = "resolveOk"
                               /\ sos_alerts'[i].video_path = NoPath]_vars

\* One session was resolved by a stop without capture, a later one by its
\* evidence update.
C22_Witness ==
    /\ unit = "sos"
    /\ last = "updateOk"
    /\ Len(sos_alerts) = 2
    /\ sos_alerts[1].status = "resolved" /\ sos_alerts[1].video_path = NoPath
    /\ sos_alerts[2].status = "resolved" /\ sos_alerts[2].video_path \in storage

\* C23: in the demo dashboard one SOS session is in flight at a time: no
\* alert row is inserted while an earlier startSOS, recording or evidence
\* upload is pending, and the end of an upload clears activeAlertId only
\* when it names that upload's alert.
C23_Claim ==
    [][/\ last' = "demoInsertOk" =>
             /\ demoRecs = {}
             /\ demoUploads = {}
             /\ Cardinality(DemoInFlight) = 1
       /\ (unit = "demo" /\ activeAlertId # 0 /\ activeAlertId' = 0) =>
             \E u \in demoUploads \ demoUploads' : u.id = activeAlertId]_vars

\* C24: in the demo dashboard a STOP on a session whose row was inserted
\* and that has no capture running (the camera view is not mounted) marks
\* the row 'resolved' with a null path and clears activeAlertId.
C24_Claim ==
    [][(/\ last' = "stopSOS"
        /\ isSOSActive
        /\ ~demoCameraRef
        /\ demoRecs = {}
        /\ activeAlertId # 0) =>
          /\ activeAlertId' = 0
          /\ sos_alerts'[activeAlertId].status = "resolved"
          /\ sos_alerts'[activeAlertId].video_path = NoPath]_vars

\* C25: in part_002 the 5 s timer stops the recording its press started and
\* isRecording returns to false.
C25_Claim ==
    [][(last' = "pivotTimeout" /\ pivotRecs # {}) =>
          /\ \A r \in pivotRecs' : r.stopped
          /\ ~isRecording']_vars

\* C26: in the demo dashboard isSOSActive is true whenever a recording is
\* running, so that the button shows STOP.
C26_Claim == (\E r \in demoRecs : ~r.stopped) => isSOSActive

\* C27: the elapsed-time interval is running exactly while sosStatus is
\* 'active': one interval in 'active', none in any other status.
C27_Claim == unit = "sos" => intervals = (IF sosStatus = "active" THEN 1 ELSE 0)

\* C29: the relay posts nothing in its error and empty cases: without an
\* alert_id it answers 400 before any profile read, a failed profile query
\* answers 500, an empty token list answers 200 with no push request, and
\* a thrown error answers 500.
C29_NothingPostedOnError ==
    /\ (unit = "relay" /\ relayPc # "idle" /\ last # "relayBadBody" /\ request.alert_id = 0) =>
          /\ last = "relayRequest"
          /\ relayPc = "done"
          /\ response.status = 400
          /\ posted = <<>>
    /\ last = "relayBadBody" => response.status = 500 /\ posted = <<>>
    /\ last = "relayQueryFailed" =>
          relayPc = "done" /\ response.status = 500 /\ posted = <<>>
    /\ (/\ last = "relayQueryOk"
        /\ \A k \in DOMAIN profiles : profiles[k] \in {NullToken, EmptyToken}) =>
          relayPc = "done" /\ response = [status |-> 200, sent |-> 0] /\ posted = <<>>
    /\ last = "relayPostThrow" => relayPc = "done" /\ response.status = 500

\* The profiles table holds one row whose token is the empty string: the
\* relay answered 200 without a push request.
C29_Witness ==
    /\ last = "relayQueryOk"
    /\ Len(profiles) = 1
    /\ profiles[1] = EmptyToken
    /\ response.status = 200
    /\ posted = <<>>

\* C21: the citizen client creates each report once and never changes it:
\* a submission inserts at most one row, always with status 'open', and no
\* step updates or removes a row of the reports table.
C21_ReportCreatedOnce ==
    [][unit = "report" =>
          /\ \A i \in DOMAIN reports : i \in DOMAIN reports' /\ reports'[i] = reports[i]
          /\ Len(reports') <= Len(reports) + 1
          /\ Len(reports') <= submissions'
          /\ \A i \in DOMAIN reports' \ DOMAIN reports :
                /\ reports'[i].status = "open"
                /\ last' = "reportInsertOk"
                /\ reportAct.pc = "insert" /\ reportAct'.pc = "none"]_vars

\* Two submissions have each inserted their row.
C21_Witness ==
    /\ last = "reportInsertOk"
    /\ submissions = 2
    /\ Len(reports) = 2
    /\ reports[1].status = "open" /\ reports[2].status = "open"

\* C28: submitReport inserts the row only after an attached photo was
\* stored; when the fetch or the upload of the photo fails no row is
\* inserted, the form keeps description and photo, the error is shown and
\* loading is false again; a failed location read leads to the insert of
\* the row with null coordinates.
C28_PhotoBeforeRow ==
    [][unit = "report" =>
          /\ last' \in {"reportFetchFailed", "reportUploadFailed"} =>
                /\ reports' = reports
                /\ reportAct'.pc = "none"
                /\ description' = description
                /\ photoUri' = photoUri
                /\ reportDialog' = "Submission Failed"
                /\ ~reportLoading'
          /\ \A i \in DOMAIN reports' \ DOMAIN reports :
                /\ reportAct.photoUri # "" <=> reports'[i].photo_path # NoPath
                /\ reports'[i].photo_path # NoPath =>
                      reports'[i].photo_path \in reportStorage
          /\ last' = "reportLocationFailed" =>
                /\ reportAct'.pc = (IF reportAct.photoUri # "" THEN "fetch" ELSE "insert")
                /\ reportAct'.lat = 0 /\ reportAct'.lng = 0
          /\ (last' = "reportInsertOk" /\ reportAct.lat = 0) =>
                /\ reports'[Len(reports')].lat = 0
                /\ reports'[Len(reports')].lng = 0]_vars

\* A report was inserted with null coordinates after its location read
\* failed; the photo upload of the next submission failed and the form
\* still holds the description and the photo.
C28_Witness ==
    /\ last = "reportUploadFailed"
    /\ Len(reports) = 1
    /\ reports[1].lat = 0
    /\ description = " lamp "
    /\ photoUri = "jpg"
    /\ reportDialog = "Submission Failed"
    /\ ~reportLoading

\* the router is at rest: nothing is pending and the route effect has run
Stable ==
    /\ unit = "auth"
    /\ ~getSessionPending
    /\ authEvents = <<>>
    /\ profileFetches = {}
    /\ loginPending = 0
    /\ ~effectDue

\* C30: once loading is false every stable route state is (no session,
\* auth group) or (session with a profile of role R, R's group); a citizen
\* is never left on a police route nor a police user on a citizen route;
\* no redirect is issued while loading is true.
C30_Claim ==
    /\ []((Stable /\ ~loading) =>
             /\ \/ session = 0 /\ segment = "(auth)"
                \/ /\ session # 0
                   /\ profile # 0
                   /\ segment = (IF RoleOf(profile) = "citizen"
                                 THEN "(citizen)" ELSE "(police)")
             /\ session = 1 => segment # "(police)"
             /\ session = 2 => segment # "(citizen)")
    /\ [][(last' = "routeEffect" /\ loading) => segment' = segment]_vars

====
